---- MODULE Spec2Model ----
(***************************************************************************)
(* Model of src/vector.h: RawMemory<T> (an owned block of uninitialized    *)
(* storage) and Vector<T> (a dynamic array built on it).                   *)
(*                                                                         *)
(* The heap is a map from block addresses to the slots of the block; a     *)
(* slot holds Raw when no object lives in it and the object's value        *)
(* otherwise.  Every Vector operation is one action.  An operation takes   *)
(* a fail point f: f = 0 lets every call succeed, f = k > 0 makes the k-th *)
(* element constructor/assignment call of the operation throw, f = -1      *)
(* makes operator new throw.                                               *)
(***************************************************************************)
EXTENDS Integers, Sequences, FiniteSets, TLC

\* ------------------------------------------------------------- bounds
\* total number of slots operator new can hand out before std::bad_alloc
HeapSlots == 6
\* element values are 0..MaxVal
MaxVal == 1
\* largest n passed to Vector(n), Reserve(n) and Resize(n)
MaxReq == 2

\* ------------------------------------------------------------- constants
Vecs == {"a", "b"}
\* one block per array plus the temporary block of a running operation
Addrs == {1, 2, 3}
nullptr == 0
\* a slot of raw memory that holds no live object
Raw == 0 - 1
\* the value a moved-from object is left with (valid but unspecified)
MovedFrom == 0 - 2
\* the value of a value-initialized element, T()
DefaultVal == 0
Vals == 0..MaxVal

VARIABLES
    heap,   \* heap[a]: the slots of the block at address a, <<>> when not allocated
    vec,    \* vec[v]: [alive, data_: [buffer_, capacity_], size_]
    T,      \* the element type's traits:
            \* [nothrow_move, nothrow_move_assign, copyable]
    last    \* the last operation: [op, ok, leak, ret]

vars == <<heap, vec, T, last>>

\* ------------------------------------------------------------- raw storage
RECURSIVE SumLen(_, _)
SumLen(h, S) ==
    IF S = {} THEN 0
    ELSE LET a == CHOOSE x \in S : TRUE IN Len(h[a]) + SumLen(h, S \ {a})

Get(h, buf, i) ==
    IF buf \in Addrs /\ i >= 0 /\ i < Len(h[buf]) THEN h[buf][i + 1] ELSE Raw

\* the value a read of slot content x yields; reading a slot without a live
\* object is undefined and yields the arbitrary value g
Rd(x, g) == IF x = Raw THEN g ELSE x

\* slots [off, off + n) of block buf set to x
Fill(h, buf, off, n, x) ==
    IF n <= 0 \/ buf \notin Addrs THEN h
    ELSE [h EXCEPT ![buf] = [j \in 1..Len(h[buf]) |->
            IF j - 1 >= off /\ j - 1 < off + n THEN x ELSE h[buf][j]]]

Put(h, buf, i, x) == Fill(h, buf, i, 1, x)

\* slots [doff, doff + n) of block dst set to what a read of slots
\* [soff, soff + n) of block src yields
CopyInto(h, src, soff, n, dst, doff, g) ==
    IF n <= 0 \/ dst \notin Addrs THEN h
    ELSE [h EXCEPT ![dst] = [j \in 1..Len(h[dst]) |->
            IF j - 1 >= doff /\ j - 1 < doff + n
            THEN Rd(Get(h, src, soff + (j - 1 - doff)), g) ELSE h[dst][j]]]

\* a moved-from source keeps a live object of unspecified value
AfterMove(x) == IF x = Raw THEN Raw ELSE MovedFrom

\* the objects in slots [off, off + n) of block buf left moved-from
MovedOut(h, buf, off, n) ==
    IF n <= 0 \/ buf \notin Addrs THEN h
    ELSE [h EXCEPT ![buf] = [j \in 1..Len(h[buf]) |->
            IF j - 1 >= off /\ j - 1 < off + n
            THEN AfterMove(h[buf][j]) ELSE h[buf][j]]]

HoldsLive(h, buf) ==
    buf \in Addrs /\ \E i \in 1..Len(h[buf]) : h[buf][i] # Raw

\* the fail point left after n calls that could have thrown and did not
Step(f, n) == IF f > n THEN f - n ELSE 0

\* RawMemory::Allocate: nullptr for n = 0, else a fresh block of n raw slots;
\* operator new throws std::bad_alloc at fail point -1
Allocate(h, n, f) ==
    IF n = 0 THEN [heap |-> h, buf |-> nullptr, ok |-> TRUE]
    ELSE IF f = 0 - 1 \/ \A a \in Addrs : h[a] # <<>>
         THEN [heap |-> h, buf |-> nullptr, ok |-> FALSE]
         ELSE LET a == CHOOSE x \in Addrs :
                          h[x] = <<>> /\ \A y \in Addrs : h[y] = <<>> => x <= y
              IN [heap |-> [h EXCEPT ![a] = [i \in 1..n |-> Raw]],
                  buf |-> a, ok |-> TRUE]

\* RawMemory::Deallocate
Deallocate(h, buf) ==
    IF buf = nullptr THEN h ELSE [h EXCEPT ![buf] = <<>>]

NullMemory == [buffer_ |-> nullptr, capacity_ |-> 0]

\* RawMemory::RawMemory(size_t capacity)
RawMemory(h, capacity, f) ==
    LET al == Allocate(h, capacity, f)
    IN [heap |-> al.heap, ok |-> al.ok,
        data |-> IF al.ok THEN [buffer_ |-> al.buf, capacity_ |-> capacity]
                 ELSE NullMemory]

\* RawMemory::Init that forgets to reset the source block
RawMemory_Init_KeepsSource(h, this, other) ==
    [heap |-> Deallocate(h, this.buffer_),
     leak |-> HoldsLive(h, this.buffer_),
     this |-> [buffer_ |-> other.buffer_, capacity_ |-> other.capacity_],
     other |-> other]

\* RawMemory::Init, behind the move constructor and move assignment of a block
RawMemory_Init(h, this, other) ==
    [heap |-> Deallocate(h, this.buffer_),
     leak |-> HoldsLive(h, this.buffer_),
     this |-> [buffer_ |-> other.buffer_, capacity_ |-> other.capacity_],
     other |-> NullMemory]

\* RawMemory::Swap
RawMemory_Swap(this, other) == [this |-> other, other |-> this]

\* ------------------------------------------------------------- <memory> algorithms
\* each returns [heap, ok, f]: the heap after it, whether it returned normally,
\* and the fail point left for the calls that follow

uninitialized_value_construct_n(h, dst, doff, n, f) ==
    IF f \in 1..n
    THEN [heap |-> Fill(h, dst, doff, f - 1, Raw), ok |-> FALSE, f |-> 0]
    ELSE [heap |-> Fill(h, dst, doff, n, DefaultVal), ok |-> TRUE, f |-> Step(f, n)]

uninitialized_copy_n(h, src, soff, n, dst, doff, f, g) ==
    IF f \in 1..n
    THEN [heap |-> Fill(h, dst, doff, f - 1, Raw), ok |-> FALSE, f |-> 0]
    ELSE [heap |-> CopyInto(h, src, soff, n, dst, doff, g),
          ok |-> TRUE, f |-> Step(f, n)]

uninitialized_move_n(h, src, soff, n, dst, doff, f, g) ==
    LET ff == IF T.nothrow_move THEN 0 ELSE f
    IN IF ff \in 1..n
       THEN [heap |-> MovedOut(Fill(h, dst, doff, ff - 1, Raw), src, soff, ff - 1),
             ok |-> FALSE, f |-> 0]
       ELSE [heap |-> MovedOut(CopyInto(h, src, soff, n, dst, doff, g), src, soff, n),
             ok |-> TRUE, f |-> IF T.nothrow_move THEN f ELSE Step(f, n)]

destroy_n(h, buf, off, n) == Fill(h, buf, off, n, Raw)

\* std::copy_n: n copy assignments, first to last
copy_n(h, src, soff, n, dst, doff, f, g) ==
    LET k == IF f \in 1..n THEN f - 1 ELSE n
    IN [heap |-> CopyInto(h, src, soff, k, dst, doff, g),
        ok |-> f \notin 1..n, f |-> Step(f, n)]

\* whether the next move assignment throws, and the fail point after one that
\* did not: a noexcept move assignment is no fail point
AssignThrows(f) == ~T.nothrow_move_assign /\ f = 1
AfterAssign(f) == IF T.nothrow_move_assign THEN f ELSE Step(f, 1)

\* one move assignment  buf[di] = std::move(buf[si])
MoveAssign(h, buf, si, di, g) ==
    LET x == Get(h, buf, si)
    IN IF si = di THEN h
       ELSE Put(Put(h, buf, di, Rd(x, g)), buf, si, AfterMove(x))

\* std::move(first, last, d_first): move assignments, first to last
RECURSIVE move_range(_, _, _, _, _, _, _)
move_range(h, buf, first, lst, d_first, f, g) ==
    IF first >= lst THEN [heap |-> h, ok |-> TRUE, f |-> f]
    ELSE IF AssignThrows(f) THEN [heap |-> h, ok |-> FALSE, f |-> 0]
    ELSE move_range(MoveAssign(h, buf, first, d_first, g), buf,
                    first + 1, lst, d_first + 1, AfterAssign(f), g)

\* std::move_backward(first, last, d_last): move assignments, last to first
RECURSIVE move_backward(_, _, _, _, _, _, _)
move_backward(h, buf, first, lst, d_last, f, g) ==
    IF first >= lst THEN [heap |-> h, ok |-> TRUE, f |-> f]
    ELSE IF AssignThrows(f) THEN [heap |-> h, ok |-> FALSE, f |-> 0]
    ELSE move_backward(MoveAssign(h, buf, lst - 1, d_last - 1, g), buf,
                       first, lst - 1, d_last - 1, AfterAssign(f), g)

\* ------------------------------------------------------------- Vector
Unconstructed == [alive |-> FALSE, data_ |-> NullMemory, size_ |-> 0]
NoPos == <<>>

\* the outcome of an operation on one array: the heap and the array after it,
\* whether it returned normally (ok) or threw, whether it released a block that
\* still held a live element (leak), the position it returned, and the fail
\* point left
Res(h, this, ok, leak, ret, f) ==
    [heap |-> h, this |-> this, ok |-> ok, leak |-> leak, ret |-> ret, f |-> f]

\* the fail point once operator new has returned
Pos(f) == IF f < 0 THEN 0 ELSE f

\* RawMemory::~RawMemory
RawMemory_dtor(h, data) ==
    [heap |-> Deallocate(h, data.buffer_), leak |-> HoldsLive(h, data.buffer_)]

\* the value T(args...) constructs: args is a value, or a reference to an
\* element of the array itself
ArgVal(h, this, arg, g) ==
    IF arg[1] = "val" THEN arg[2] ELSE Rd(Get(h, this.data_.buffer_, arg[2]), g)

\* a transfer that moves whatever the element type
SafeMove_AlwaysMoves(h, from, foff, size, to, toff, f, g) ==
    LET tr == uninitialized_move_n(h, from, foff, size, to, toff, f, g)
    IN IF ~tr.ok THEN tr
       ELSE [heap |-> destroy_n(tr.heap, from, foff, size), ok |-> TRUE, f |-> tr.f]

\* Vector::SafeMove
SafeMove(h, from, foff, size, to, toff, f, g) ==
    LET tr == IF T.nothrow_move \/ ~T.copyable
              THEN uninitialized_move_n(h, from, foff, size, to, toff, f, g)
              ELSE uninitialized_copy_n(h, from, foff, size, to, toff, f, g)
    IN IF ~tr.ok THEN tr
       ELSE [heap |-> destroy_n(tr.heap, from, foff, size), ok |-> TRUE, f |-> tr.f]

\* a sized constructor whose block is not released when a construction throws
Vector_n_KeepsBlock(h, size, f) ==
    LET nd == RawMemory(h, size, f)
    IN IF ~nd.ok THEN Res(h, Unconstructed, FALSE, FALSE, NoPos, 0)
       ELSE LET vc == uninitialized_value_construct_n(
                          nd.heap, nd.data.buffer_, 0, size, Pos(f))
            IN IF ~vc.ok THEN Res(vc.heap, Unconstructed, FALSE, FALSE, NoPos, 0)
               ELSE Res(vc.heap, [alive |-> TRUE, data_ |-> nd.data, size_ |-> size],
                        TRUE, FALSE, NoPos, vc.f)

\* Vector::Vector(size_t size)
Vector_n(h, size, f) ==
    LET nd == RawMemory(h, size, f)
    IN IF ~nd.ok THEN Res(h, Unconstructed, FALSE, FALSE, NoPos, 0)
       ELSE LET vc == uninitialized_value_construct_n(
                          nd.heap, nd.data.buffer_, 0, size, Pos(f))
                dd == RawMemory_dtor(vc.heap, nd.data)
            IN IF ~vc.ok THEN Res(dd.heap, Unconstructed, FALSE, dd.leak, NoPos, 0)
               ELSE Res(vc.heap, [alive |-> TRUE, data_ |-> nd.data, size_ |-> size],
                        TRUE, FALSE, NoPos, vc.f)

\* a copy constructor that takes the source's block instead of copying it
Vector_copy_Shallow(h, other, f, g) ==
    Res(h, [alive |-> TRUE, data_ |-> other.data_, size_ |-> other.size_],
        TRUE, FALSE, NoPos, 0)

\* Vector::Vector(const Vector &other)
Vector_copy(h, other, f, g) ==
    LET nd == RawMemory(h, other.size_, f)
    IN IF ~nd.ok THEN Res(h, Unconstructed, FALSE, FALSE, NoPos, 0)
       ELSE LET uc == uninitialized_copy_n(nd.heap, other.data_.buffer_, 0,
                          other.size_, nd.data.buffer_, 0, Pos(f), g)
                dd == RawMemory_dtor(uc.heap, nd.data)
            IN IF ~uc.ok THEN Res(dd.heap, Unconstructed, FALSE, dd.leak, NoPos, 0)
               ELSE Res(uc.heap,
                        [alive |-> TRUE, data_ |-> nd.data, size_ |-> other.size_],
                        TRUE, FALSE, NoPos, uc.f)

\* a move constructor that takes the size without resetting the source's
Vector_move_KeepsSize(h, other) ==
    LET mi == RawMemory_Init(h, NullMemory, other.data_)
    IN [heap |-> mi.heap, ok |-> TRUE, leak |-> mi.leak, ret |-> NoPos,
        this |-> [alive |-> TRUE, data_ |-> mi.this, size_ |-> other.size_],
        other |-> [other EXCEPT !.data_ = mi.other]]

\* Vector::Vector(Vector &&other); the result also holds the moved-from array
Vector_move(h, other) ==
    LET mi == RawMemory_Init(h, NullMemory, other.data_)
    IN [heap |-> mi.heap, ok |-> TRUE, leak |-> mi.leak, ret |-> NoPos,
        this |-> [alive |-> TRUE, data_ |-> mi.this, size_ |-> other.size_],
        other |-> [other EXCEPT !.data_ = mi.other, !.size_ = 0]]

\* Vector::~Vector, followed by the destructor of its member data_
Vector_dtor(h, this) ==
    RawMemory_dtor(destroy_n(h, this.data_.buffer_, 0, this.size_), this.data_)

\* a swap that exchanges the blocks and forgets the sizes
Vector_Swap_KeepsSize(this, other) ==
    LET sw == RawMemory_Swap(this.data_, other.data_)
    IN [this |-> [this EXCEPT !.data_ = sw.this],
        other |-> [other EXCEPT !.data_ = sw.other]]

\* Vector::Swap
Vector_Swap(this, other) ==
    LET sw == RawMemory_Swap(this.data_, other.data_)
    IN [this |-> [this EXCEPT !.data_ = sw.this, !.size_ = other.size_],
        other |-> [other EXCEPT !.data_ = sw.other, !.size_ = this.size_]]

\* a copy assignment that forgets to destroy the excess elements of this
CopyAssign_KeepsTail(h, this, rhs, f, g) ==
    IF rhs.size_ > this.data_.capacity_
    THEN LET rc == Vector_copy(h, rhs, f, g)
         IN IF ~rc.ok THEN Res(rc.heap, this, FALSE, rc.leak, NoPos, 0)
            ELSE LET sw == Vector_Swap(this, rc.this)
                     dd == Vector_dtor(rc.heap, sw.other)
                 IN Res(dd.heap, sw.this, TRUE, dd.leak, NoPos, rc.f)
    ELSE LET copy_elem == IF rhs.size_ < this.size_ THEN rhs.size_ ELSE this.size_
             cp == copy_n(h, rhs.data_.buffer_, 0, copy_elem,
                          this.data_.buffer_, 0, Pos(f), g)
         IN IF ~cp.ok THEN Res(cp.heap, this, FALSE, FALSE, NoPos, 0)
            ELSE IF rhs.size_ < this.size_
            THEN Res(cp.heap,
                     [this EXCEPT !.size_ = rhs.size_], TRUE, FALSE, NoPos, cp.f)
            ELSE LET uc == uninitialized_copy_n(cp.heap, rhs.data_.buffer_,
                               this.size_, rhs.size_ - this.size_,
                               this.data_.buffer_, copy_elem, cp.f, g)
                 IN IF ~uc.ok THEN Res(uc.heap, this, FALSE, FALSE, NoPos, 0)
                    ELSE Res(uc.heap, [this EXCEPT !.size_ = rhs.size_],
                             TRUE, FALSE, NoPos, uc.f)

\* Vector::operator=(const Vector &rhs), for this != &rhs
CopyAssign(h, this, rhs, f, g) ==
    IF rhs.size_ > this.data_.capacity_
    THEN LET rc == Vector_copy(h, rhs, f, g)
         IN IF ~rc.ok THEN Res(rc.heap, this, FALSE, rc.leak, NoPos, 0)
            ELSE LET sw == Vector_Swap(this, rc.this)
                     dd == Vector_dtor(rc.heap, sw.other)
                 IN Res(dd.heap, sw.this, TRUE, dd.leak, NoPos, rc.f)
    ELSE LET copy_elem == IF rhs.size_ < this.size_ THEN rhs.size_ ELSE this.size_
             cp == copy_n(h, rhs.data_.buffer_, 0, copy_elem,
                          this.data_.buffer_, 0, Pos(f), g)
         IN IF ~cp.ok THEN Res(cp.heap, this, FALSE, FALSE, NoPos, 0)
            ELSE IF rhs.size_ < this.size_
            THEN Res(destroy_n(cp.heap, this.data_.buffer_, copy_elem,
                               this.size_ - rhs.size_),
                     [this EXCEPT !.size_ = rhs.size_], TRUE, FALSE, NoPos, cp.f)
            ELSE LET uc == uninitialized_copy_n(cp.heap, rhs.data_.buffer_,
                               this.size_, rhs.size_ - this.size_,
                               this.data_.buffer_, copy_elem, cp.f, g)
                 IN IF ~uc.ok THEN Res(uc.heap, this, FALSE, FALSE, NoPos, 0)
                    ELSE Res(uc.heap, [this EXCEPT !.size_ = rhs.size_],
                             TRUE, FALSE, NoPos, uc.f)

\* Vector::operator=(Vector &&rhs), for this != &rhs
MoveAssign_(h, this, rhs) ==
    LET mi == RawMemory_Init(h, this.data_, rhs.data_)
    IN [heap |-> mi.heap, ok |-> TRUE, leak |-> mi.leak, ret |-> NoPos,
        this |-> [this EXCEPT !.data_ = mi.this, !.size_ = rhs.size_],
        other |-> [rhs EXCEPT !.data_ = mi.other, !.size_ = 0]]

\* Vector::Reserve
Reserve(h, this, new_capacity, f, g) ==
    IF new_capacity <= this.data_.capacity_
    THEN Res(h, this, TRUE, FALSE, NoPos, Pos(f))
    ELSE LET nd == RawMemory(h, new_capacity, f)
         IN IF ~nd.ok THEN Res(h, this, FALSE, FALSE, NoPos, 0)
            ELSE LET sm == SafeMove(nd.heap, this.data_.buffer_, 0, this.size_,
                                    nd.data.buffer_, 0, Pos(f), g)
                     sw == RawMemory_Swap(this.data_, nd.data)
                     dd == RawMemory_dtor(sm.heap,
                                          IF sm.ok THEN sw.other ELSE nd.data)
                 IN IF ~sm.ok THEN Res(dd.heap, this, FALSE, dd.leak, NoPos, 0)
                    ELSE Res(dd.heap, [this EXCEPT !.data_ = sw.this],
                             TRUE, dd.leak, NoPos, sm.f)

\* Vector::Resize that forgets to reserve before it constructs
Resize_NoReserve(h, this, new_size, f, g) ==
    IF new_size < this.size_
    THEN Res(destroy_n(h, this.data_.buffer_, new_size, this.size_ - new_size),
             [this EXCEPT !.size_ = new_size], TRUE, FALSE, NoPos, Pos(f))
    ELSE LET vc == uninitialized_value_construct_n(
                       h, this.data_.buffer_, this.size_,
                       new_size - this.size_, Pos(f))
         IN IF ~vc.ok THEN Res(vc.heap, this, FALSE, FALSE, NoPos, 0)
            ELSE Res(vc.heap, [this EXCEPT !.size_ = new_size],
                     TRUE, FALSE, NoPos, vc.f)

\* Vector::Resize that grows without constructing the new elements
Resize_NoConstruct(h, this, new_size, f, g) ==
    IF new_size < this.size_
    THEN Res(destroy_n(h, this.data_.buffer_, new_size, this.size_ - new_size),
             [this EXCEPT !.size_ = new_size], TRUE, FALSE, NoPos, Pos(f))
    ELSE IF new_size > this.size_
    THEN LET rs == Reserve(h, this, new_size, f, g)
         IN IF ~rs.ok THEN rs
            ELSE Res(rs.heap, [rs.this EXCEPT !.size_ = new_size],
                     TRUE, rs.leak, NoPos, rs.f)
    ELSE Res(h, [this EXCEPT !.size_ = new_size], TRUE, FALSE, NoPos, Pos(f))

\* Vector::Resize
Resize(h, this, new_size, f, g) ==
    IF new_size < this.size_
    THEN Res(destroy_n(h, this.data_.buffer_, new_size, this.size_ - new_size),
             [this EXCEPT !.size_ = new_size], TRUE, FALSE, NoPos, Pos(f))
    ELSE IF new_size > this.size_
    THEN LET rs == Reserve(h, this, new_size, f, g)
         IN IF ~rs.ok THEN rs
            ELSE LET vc == uninitialized_value_construct_n(
                               rs.heap, rs.this.data_.buffer_, this.size_,
                               new_size - this.size_, rs.f)
                 IN IF ~vc.ok THEN Res(vc.heap, rs.this, FALSE, rs.leak, NoPos, 0)
                    ELSE Res(vc.heap, [rs.this EXCEPT !.size_ = new_size],
                             TRUE, rs.leak, NoPos, vc.f)
    ELSE Res(h, [this EXCEPT !.size_ = new_size], TRUE, FALSE, NoPos, Pos(f))

\* Vector::PopBack that destroys the slot after the last element
PopBack_OffByOne(h, this) ==
    Res(destroy_n(h, this.data_.buffer_, this.size_, 1),
        [this EXCEPT !.size_ = this.size_ - 1], TRUE, FALSE, NoPos, 0)

\* Vector::PopBack, for size_ > 0
PopBack(h, this) ==
    Res(destroy_n(h, this.data_.buffer_, this.size_ - 1, 1),
        [this EXCEPT !.size_ = this.size_ - 1], TRUE, FALSE, NoPos, 0)

\* growth by one slot instead of doubling
GrownCapacity_PlusOne(size) == size + 1

\* the capacity of the block a full array grows into
GrownCapacity(size) == IF size = 0 THEN 1 ELSE size * 2

\* Vector::EmplaceBack
EmplaceBack(h, this, arg, f, g) ==
    IF this.size_ = this.data_.capacity_
    THEN LET nd == RawMemory(h, GrownCapacity(this.size_), f)
         IN IF ~nd.ok THEN Res(h, this, FALSE, FALSE, NoPos, 0)
            ELSE IF Pos(f) = 1
            THEN Res(Deallocate(nd.heap, nd.data.buffer_), this, FALSE, FALSE, NoPos, 0)
            ELSE LET h1 == Put(nd.heap, nd.data.buffer_, this.size_,
                               ArgVal(nd.heap, this, arg, g))
                     sm == SafeMove(h1, this.data_.buffer_, 0, this.size_,
                                    nd.data.buffer_, 0, Step(Pos(f), 1), g)
                     sw == RawMemory_Swap(this.data_, nd.data)
                     dd == RawMemory_dtor(sm.heap,
                                          IF sm.ok THEN sw.other ELSE nd.data)
                 IN IF ~sm.ok THEN Res(dd.heap, this, FALSE, dd.leak, NoPos, 0)
                    ELSE Res(dd.heap,
                             [this EXCEPT !.data_ = sw.this, !.size_ = this.size_ + 1],
                             TRUE, dd.leak, <<sw.this.buffer_, this.size_>>, sm.f)
    ELSE IF Pos(f) = 1 THEN Res(h, this, FALSE, FALSE, NoPos, 0)
    ELSE Res(Put(h, this.data_.buffer_, this.size_, ArgVal(h, this, arg, g)),
             [this EXCEPT !.size_ = this.size_ + 1], TRUE, FALSE,
             <<this.data_.buffer_, this.size_>>, Step(Pos(f), 1))

\* Vector::EmplaceWithReallocate
EmplaceWithReallocate(h, this, index, arg, f, g) ==
    LET nd == RawMemory(h, GrownCapacity(this.size_), f)
    IN IF ~nd.ok THEN Res(h, this, FALSE, FALSE, NoPos, 0)
       ELSE IF Pos(f) = 1
       THEN Res(Deallocate(nd.heap, nd.data.buffer_), this, FALSE, FALSE, NoPos, 0)
       ELSE LET new == nd.data.buffer_
                h1 == Put(nd.heap, new, index, ArgVal(nd.heap, this, arg, g))
                s1 == SafeMove(h1, this.data_.buffer_, 0, index,
                               new, 0, Step(Pos(f), 1), g)
            IN IF ~s1.ok
               THEN \* catch: new_data[index].~T(); throw
                    LET dd == RawMemory_dtor(destroy_n(s1.heap, new, index, 1), nd.data)
                    IN Res(dd.heap, this, FALSE, dd.leak, NoPos, 0)
               ELSE LET s2 == SafeMove(s1.heap, this.data_.buffer_, index,
                                       this.size_ - index, new, index + 1, s1.f, g)
                    IN IF ~s2.ok
                       THEN \* catch: destroy_n(new_data, index + 1); throw
                            LET dd == RawMemory_dtor(
                                          destroy_n(s2.heap, new, 0, index + 1), nd.data)
                            IN Res(dd.heap, this, FALSE, dd.leak, NoPos, 0)
                       ELSE LET sw == RawMemory_Swap(this.data_, nd.data)
                                dd == RawMemory_dtor(s2.heap, sw.other)
                            IN Res(dd.heap,
                                   [this EXCEPT !.data_ = sw.this,
                                                !.size_ = this.size_ + 1],
                                   TRUE, dd.leak, <<sw.this.buffer_, index>>, s2.f)

\* Vector::EmplaceWithoutReallocate that shifts with std::move instead of
\* std::move_backward, so the overlapping ranges overwrite each other
EmplaceWithoutReallocate_ForwardShift(h, this, index, arg, f, g) ==
    LET buf == this.data_.buffer_
        temp == ArgVal(h, this, arg, g)
        f1 == Step(Pos(f), 1)
        lastv == Get(h, buf, this.size_ - 1)
        h1 == Put(Put(h, buf, this.size_, Rd(lastv, g)),
                  buf, this.size_ - 1, AfterMove(lastv))
        f2 == IF T.nothrow_move THEN f1 ELSE Step(f1, 1)
        mb == move_range(h1, buf, index, this.size_ - 1, index + 1, f2, g)
    IN IF Pos(f) = 1 THEN Res(h, this, FALSE, FALSE, NoPos, 0)
       ELSE IF ~T.nothrow_move /\ f1 = 1 THEN Res(h, this, FALSE, FALSE, NoPos, 0)
       ELSE IF ~mb.ok THEN Res(mb.heap, this, FALSE, FALSE, NoPos, 0)
       ELSE IF AssignThrows(mb.f) THEN Res(mb.heap, this, FALSE, FALSE, NoPos, 0)
       ELSE Res(Put(mb.heap, buf, index, temp),
                [this EXCEPT !.size_ = this.size_ + 1], TRUE, FALSE,
                <<buf, index>>, AfterAssign(mb.f))

\* Vector::EmplaceWithoutReallocate that reads its argument after the shift
EmplaceWithoutReallocate_LateTemp(h, this, index, arg, f, g) ==
    LET buf == this.data_.buffer_
        f1 == Step(Pos(f), 1)
        lastv == Get(h, buf, this.size_ - 1)
        \* new (end()) T(std::move(data_[size_ - 1]))
        h1 == Put(Put(h, buf, this.size_, Rd(lastv, g)),
                  buf, this.size_ - 1, AfterMove(lastv))
        f2 == IF T.nothrow_move THEN f1 ELSE Step(f1, 1)
        mb == move_backward(h1, buf, index, this.size_ - 1, this.size_, f2, g)
    IN IF Pos(f) = 1 THEN Res(h, this, FALSE, FALSE, NoPos, 0)
       ELSE IF ~T.nothrow_move /\ f1 = 1 THEN Res(h, this, FALSE, FALSE, NoPos, 0)
       ELSE IF ~mb.ok THEN Res(mb.heap, this, FALSE, FALSE, NoPos, 0)
       ELSE IF AssignThrows(mb.f) THEN Res(mb.heap, this, FALSE, FALSE, NoPos, 0)
       ELSE Res(Put(mb.heap, buf, index, ArgVal(mb.heap, this, arg, g)),
                [this EXCEPT !.size_ = this.size_ + 1], TRUE, FALSE,
                <<buf, index>>, AfterAssign(mb.f))

\* Vector::EmplaceWithoutReallocate
EmplaceWithoutReallocate(h, this, index, arg, f, g) ==
    LET buf == this.data_.buffer_
        temp == ArgVal(h, this, arg, g)
        f1 == Step(Pos(f), 1)
        lastv == Get(h, buf, this.size_ - 1)
        \* new (end()) T(std::move(data_[size_ - 1]))
        h1 == Put(Put(h, buf, this.size_, Rd(lastv, g)),
                  buf, this.size_ - 1, AfterMove(lastv))
        f2 == IF T.nothrow_move THEN f1 ELSE Step(f1, 1)
        mb == move_backward(h1, buf, index, this.size_ - 1, this.size_, f2, g)
    IN IF Pos(f) = 1 THEN Res(h, this, FALSE, FALSE, NoPos, 0)
       ELSE IF ~T.nothrow_move /\ f1 = 1 THEN Res(h, this, FALSE, FALSE, NoPos, 0)
       ELSE IF ~mb.ok THEN Res(mb.heap, this, FALSE, FALSE, NoPos, 0)
       ELSE IF AssignThrows(mb.f) THEN Res(mb.heap, this, FALSE, FALSE, NoPos, 0)
       ELSE Res(Put(mb.heap, buf, index, temp),
                [this EXCEPT !.size_ = this.size_ + 1], TRUE, FALSE,
                <<buf, index>>, AfterAssign(mb.f))

\* Vector::Emplace; pos is begin() + index
Emplace(h, this, index, arg, f, g) ==
    IF index = this.size_ THEN EmplaceBack(h, this, arg, f, g)
    ELSE IF this.size_ = this.data_.capacity_
    THEN EmplaceWithReallocate(h, this, index, arg, f, g)
    ELSE EmplaceWithoutReallocate(h, this, index, arg, f, g)

\* Vector::Erase that moves the elements after index + 1 only
Erase_SkipsOne(h, this, index, f, g) ==
    LET buf == this.data_.buffer_
        mv == move_range(h, buf, index + 2, this.size_, index + 1, f, g)
    IN IF ~mv.ok THEN Res(mv.heap, this, FALSE, FALSE, NoPos, 0)
       ELSE Res(destroy_n(mv.heap, buf, this.size_ - 1, 1),
                [this EXCEPT !.size_ = this.size_ - 1], TRUE, FALSE,
                <<buf, index>>, mv.f)

\* Vector::Erase, for size_ > 0; pos is begin() + index
Erase(h, this, index, f, g) ==
    LET buf == this.data_.buffer_
        mv == move_range(h, buf, index + 1, this.size_, index, f, g)
    IN IF ~mv.ok THEN Res(mv.heap, this, FALSE, FALSE, NoPos, 0)
       ELSE Res(destroy_n(mv.heap, buf, this.size_ - 1, 1),
                [this EXCEPT !.size_ = this.size_ - 1], TRUE, FALSE,
                <<buf, index>>, mv.f)

\* ------------------------------------------------------------- actions
\* the arbitrary values a read of array w may yield: a choice only when one
\* of its slots [0, size_) holds no live object
Garbage(w) ==
    IF \E i \in 0..(vec[w].size_ - 1) : Get(heap, vec[w].data_.buffer_, i) = Raw
    THEN Vals ELSE {DefaultVal}

\* what a caller passes as the new value: a value to construct from
Args == {<<"val", x>> : x \in Vals}

\* the fail points of an operation that asks operator new for n slots (n = 0:
\* no allocation) and makes k throwing calls: none, the j-th call, and (when
\* it allocates) operator new, which must throw once the heap is exhausted
Fails(n, k) ==
    IF n = 0 THEN 0..k
    ELSE IF SumLen(heap, Addrs) + n > HeapSlots THEN {0 - 1}
    ELSE {0 - 1} \cup 0..k

\* the calls of SafeMove over n elements that can throw
TransferThrows(n) == IF T.nothrow_move THEN 0 ELSE n
\* the move assignments among n that can throw
AssignsThrow(n) == IF T.nothrow_move_assign THEN 0 ELSE n

Done(op, v, r) ==
    /\ heap' = r.heap
    /\ vec' = [vec EXCEPT ![v] = r.this]
    /\ last' = [op |-> op, ok |-> r.ok, leak |-> r.leak, ret |-> r.ret]
    /\ UNCHANGED T

Done2(op, v, w, r) ==
    /\ heap' = r.heap
    /\ vec' = [vec EXCEPT ![v] = r.this, ![w] = r.other]
    /\ last' = [op |-> op, ok |-> r.ok, leak |-> r.leak, ret |-> r.ret]
    /\ UNCHANGED T

Same(op, v) == Done(op, v, Res(heap, vec[v], TRUE, FALSE, NoPos, 0))

\* the outcomes an operation on array v can have in the current state, over
\* its fail points and the values a read of a dead slot may yield; empty when
\* the operation's precondition does not hold

VectorOutcomes(v) ==
    IF vec[v].alive THEN {}
    ELSE {Res(heap, [Unconstructed EXCEPT !.alive = TRUE], TRUE, FALSE, NoPos, 0)}

VectorNOutcomes(v, n) ==
    IF vec[v].alive THEN {}
    ELSE {Vector_n(heap, n, f) : f \in Fails(n, n)}

VectorCopyOutcomes(v, w) ==
    IF vec[v].alive \/ ~vec[w].alive \/ ~T.copyable THEN {}
    ELSE {Vector_copy(heap, vec[w], f, g) :
              f \in Fails(vec[w].size_, vec[w].size_), g \in Garbage(w)}

\* v = w; if (this != &rhs) guards the self-assignment
CopyAssignOutcomes(v, w) ==
    IF ~vec[v].alive \/ ~vec[w].alive \/ ~T.copyable THEN {}
    ELSE IF v = w THEN {Res(heap, vec[v], TRUE, FALSE, NoPos, 0)}
    ELSE {CopyAssign(heap, vec[v], vec[w], f, g) :
             f \in Fails(IF vec[w].size_ > vec[v].data_.capacity_
                         THEN vec[w].size_ ELSE 0, vec[w].size_),
             g \in Garbage(w)}

DtorOutcomes(v) ==
    IF ~vec[v].alive THEN {}
    ELSE LET dd == Vector_dtor(heap, vec[v])
         IN {Res(dd.heap, Unconstructed, TRUE, dd.leak, NoPos, 0)}

ReserveOutcomes(v, n) ==
    IF ~vec[v].alive THEN {}
    ELSE LET grows == n > vec[v].data_.capacity_
         IN {Reserve(heap, vec[v], n, f, g) :
                f \in Fails(IF grows THEN n ELSE 0,
                            IF grows THEN TransferThrows(vec[v].size_) ELSE 0),
                g \in Garbage(v)}

ResizeOutcomes(v, n) ==
    IF ~vec[v].alive THEN {}
    ELSE LET grows == n > vec[v].data_.capacity_
             k == IF n <= vec[v].size_ THEN 0
                  ELSE (n - vec[v].size_)
                       + (IF grows THEN TransferThrows(vec[v].size_) ELSE 0)
         IN {Resize(heap, vec[v], n, f, g) :
                f \in Fails(IF grows THEN n ELSE 0, k), g \in Garbage(v)}

PushBackOutcomes(v, arg) ==
    IF ~vec[v].alive THEN {}
    ELSE LET full == vec[v].size_ = vec[v].data_.capacity_
         IN {EmplaceBack(heap, vec[v], arg, f, g) :
                f \in Fails(IF full THEN GrownCapacity(vec[v].size_) ELSE 0,
                            1 + IF full THEN TransferThrows(vec[v].size_) ELSE 0),
                g \in Garbage(v)}

PopBackOutcomes(v) ==
    IF ~vec[v].alive \/ vec[v].size_ = 0 THEN {}
    ELSE {PopBack(heap, vec[v])}

EmplaceOutcomes(v, index, arg) ==
    IF ~vec[v].alive \/ index \notin 0..vec[v].size_ THEN {}
    ELSE LET full == vec[v].size_ = vec[v].data_.capacity_
             k == IF full THEN 1 + TransferThrows(vec[v].size_)
                  ELSE IF index = vec[v].size_ THEN 1
                  ELSE 1 + TransferThrows(1) + AssignsThrow(vec[v].size_ - index)
         IN {Emplace(heap, vec[v], index, arg, f, g) :
                f \in Fails(IF full THEN GrownCapacity(vec[v].size_) ELSE 0, k),
                g \in Garbage(v)}

EraseOutcomes(v, index) ==
    IF ~vec[v].alive \/ vec[v].size_ = 0 \/ index \notin 0..(vec[v].size_ - 1)
    THEN {}
    ELSE {Erase(heap, vec[v], index, f, g) :
             f \in Fails(0, AssignsThrow(vec[v].size_ - 1 - index)),
             g \in Garbage(v)}

DoVector(v) == \E r \in VectorOutcomes(v) : Done("Vector", v, r)

DoVectorN(v, n) == \E r \in VectorNOutcomes(v, n) : Done("VectorN", v, r)

DoVectorCopy(v, w) == \E r \in VectorCopyOutcomes(v, w) : Done("VectorCopy", v, r)

DoVectorMove(v, w) ==
    /\ ~vec[v].alive /\ vec[w].alive
    /\ Done2("VectorMove", v, w, Vector_move(heap, vec[w]))

DoDtor(v) == \E r \in DtorOutcomes(v) : Done("Dtor", v, r)

DoCopyAssign(v, w) == \E r \in CopyAssignOutcomes(v, w) : Done("CopyAssign", v, r)

DoMoveAssign(v, w) ==
    /\ vec[v].alive /\ vec[w].alive
    /\ IF v = w THEN Same("MoveAssign", v)
       ELSE Done2("MoveAssign", v, w, MoveAssign_(heap, vec[v], vec[w]))

DoSwap(v, w) ==
    /\ vec[v].alive /\ vec[w].alive
    /\ IF v = w THEN Same("Swap", v)
       ELSE Done2("Swap", v, w,
                  Vector_Swap(vec[v], vec[w]) @@
                  [heap |-> heap, ok |-> TRUE, leak |-> FALSE, ret |-> NoPos])

DoReserve(v, n) == \E r \in ReserveOutcomes(v, n) : Done("Reserve", v, r)

DoResize(v, n) == \E r \in ResizeOutcomes(v, n) : Done("Resize", v, r)

DoPushBack(v, arg) == \E r \in PushBackOutcomes(v, arg) : Done("PushBack", v, r)

DoPopBack(v) == \E r \in PopBackOutcomes(v) : Done("PopBack", v, r)

DoEmplace(v, index, arg) ==
    \E r \in EmplaceOutcomes(v, index, arg) : Done("Emplace", v, r)

DoErase(v, index) == \E r \in EraseOutcomes(v, index) : Done("Erase", v, r)

\* v.PushBack(v[j]): the const T& overload, bound to an element of v itself
DoPushBackRef(v, j) ==
    /\ T.copyable /\ j \in 0..(vec[v].size_ - 1)
    /\ \E r \in PushBackOutcomes(v, <<"ref", j>>) : Done("PushBackRef", v, r)

\* v.Insert(v.begin() + index, v[j])
DoInsertRef(v, index, j) ==
    /\ T.copyable /\ j \in 0..(vec[v].size_ - 1)
    /\ \E r \in EmplaceOutcomes(v, index, <<"ref", j>>) : Done("InsertRef", v, r)

\* ------------------------------------------------------------- specifications
\* element types: every move noexcept; a throwing move constructor with a
\* copy constructor (SafeMove copies); a throwing move constructor and no copy
\* constructor; throwing move constructor and move assignment
NothrowT == [nothrow_move |-> TRUE, nothrow_move_assign |-> TRUE, copyable |-> TRUE]
CopiedT == [nothrow_move |-> FALSE, nothrow_move_assign |-> TRUE, copyable |-> TRUE]
MoveOnlyT == [nothrow_move |-> FALSE, nothrow_move_assign |-> TRUE, copyable |-> FALSE]
ThrowingT == [nothrow_move |-> FALSE, nothrow_move_assign |-> FALSE, copyable |-> TRUE]

Indexes == 0..HeapSlots

InitWith(types) ==
    /\ heap = [a \in Addrs |-> <<>>]
    /\ vec = [v \in Vecs |-> Unconstructed]
    /\ T \in types
    /\ last = [op |-> "none", ok |-> TRUE, leak |-> FALSE, ret |-> NoPos]

\* the operations of one array
One(v) ==
    \/ DoVector(v)
    \/ \E n \in 0..MaxReq : DoVectorN(v, n)
    \/ DoDtor(v)
    \/ \E n \in 0..MaxReq : DoReserve(v, n)
    \/ \E n \in 0..MaxReq : DoResize(v, n)
    \/ \E arg \in Args : DoPushBack(v, arg)
    \/ DoPopBack(v)
    \/ \E index \in Indexes, arg \in Args : DoEmplace(v, index, arg)
    \/ \E index \in Indexes : DoErase(v, index)

\* the operations between two arrays
Two(v, w) ==
    \/ DoVectorCopy(v, w)
    \/ DoVectorMove(v, w)
    \/ DoCopyAssign(v, w)
    \/ DoMoveAssign(v, w)
    \/ DoSwap(v, w)

\* a program with two arrays
Init == InitWith({NothrowT, CopiedT})
Next == \/ \E v \in Vecs : One(v)
        \/ \E v, w \in Vecs : Two(v, w)
Spec == Init /\ [][Next]_vars

\* a program with one array, over every element type
InitOne == InitWith({NothrowT, CopiedT, MoveOnlyT, ThrowingT})
NextOne == One("a")
SpecOne == InitOne /\ [][NextOne]_vars

\* a program with one array of copyable elements that also passes elements of
\* the array to PushBack and Insert by reference
InitAlias == InitWith({NothrowT, CopiedT, ThrowingT})
NextAlias ==
    \/ One("a")
    \/ \E j \in Indexes : DoPushBackRef("a", j)
    \/ \E index, j \in Indexes : DoInsertRef("a", index, j)
SpecAlias == InitAlias /\ [][NextAlias]_vars

\* a program in which no operation throws: every step returns normally
NextNoThrow == Next /\ last'.ok
SpecNoThrow == Init /\ [][NextNoThrow]_vars

\* ------------------------------------------------------------- observations
\* the contents of slots [0, size_) of an array, Raw where no object lives
Elems(h, this) == [i \in 1..this.size_ |-> Get(h, this.data_.buffer_, i - 1)]

\* what a caller can observe of an array
Observed(h, this) ==
    [size |-> this.size_, capacity |-> this.data_.capacity_, elems |-> Elems(h, this)]

\* every slot [0, size_) holds a live object
AllLive(h, this) == \A i \in 1..this.size_ : Elems(h, this)[i] # Raw

\* slot i of the array's block holds a live object exactly when i < size_
SlotsMatchSize(h, this) ==
    \A i \in 0..(this.data_.capacity_ - 1) :
        (Get(h, this.data_.buffer_, i) # Raw) <=> (i < this.size_)

Full(this) == this.size_ = this.data_.capacity_

InsertAt(s, i, x) == SubSeq(s, 1, i) \o <<x>> \o SubSeq(s, i + 1, Len(s))
RemoveAt(s, i) == SubSeq(s, 1, i) \o SubSeq(s, i + 2, Len(s))

\* ------------------------------------------------------------- claims

\* C1: after every operation, normal or throwing, slots [0, Size()) of the
\* owned block hold live elements and slots [Size(), Capacity()) hold none.
C1_SlotsMatchSize ==
    \A v \in Vecs : vec[v].alive => SlotsMatchSize(heap, vec[v])

\* C2: a reallocating append or insert (Size() == Capacity()) that throws
\* leaves size, capacity and the values and liveness of the elements as they
\* were before the call.
C2_FailedGrowthChangesNothing ==
    [][\A v \in Vecs :
          (/\ last'.op \in {"PushBack", "Emplace"} /\ ~last'.ok
           /\ vec[v].alive /\ Full(vec[v]))
          => Observed(heap', vec'[v]) = Observed(heap, vec[v])]_vars

\* C3: when no operation throws, a block is released only when none of its
\* slots holds a live element.
C3_NoLiveElementReleased == ~last.leak

\* C4: Size() <= Capacity() for every array after every operation, also
\* after one that exits with an exception.
C4_SizeWithinCapacity ==
    \A v \in Vecs : vec[v].size_ <= vec[v].data_.capacity_

C4_Witness ==
    /\ last.op = "Resize" /\ ~last.ok
    /\ \E v \in Vecs : vec[v].alive /\ vec[v].size_ > 0
                       /\ vec[v].size_ < vec[v].data_.capacity_

\* C5: a failed Resize(new_size) leaves size, capacity and element values
\* as they were before the call.
C5_FailedResizeChangesNothing ==
    [][\A v \in Vecs :
          (last'.op = "Resize" /\ ~last'.ok /\ vec[v].alive)
          => Observed(heap', vec'[v]) = Observed(heap, vec[v])]_vars

\* C6: a copy assignment a = b that throws leaves a's size, capacity and
\* element values unchanged and b intact, in both branches.
C6_FailedCopyAssignChangesNothing ==
    [][\A v \in Vecs :
          (last'.op = "CopyAssign" /\ ~last'.ok)
          => Observed(heap', vec'[v]) = Observed(heap, vec[v])]_vars

\* C7: a successful Emplace at index i of an array of size s yields size
\* s + 1, the old [0, i), the new value at i, the old [i, s) after it, and
\* returns the position of index i; on all three paths.
C7_EmplaceInsertsAtIndex ==
    \A v \in Vecs, x \in Vals : \A index \in 0..vec[v].size_ :
        LET r == Emplace(heap, vec[v], index, <<"val", x>>, 0, DefaultVal)
        IN (vec[v].alive /\ AllLive(heap, vec[v]) /\ r.ok)
           => /\ r.this.size_ = vec[v].size_ + 1
              /\ Elems(r.heap, r.this) = InsertAt(Elems(heap, vec[v]), index, x)
              /\ r.ret = <<r.this.data_.buffer_, index>>

\* an in-place shift has happened: a full array of 4 after an insert at 1
C7_Witness ==
    /\ last.op = "Emplace" /\ last.ok
    /\ vec["a"].size_ = 4 /\ vec["a"].data_.capacity_ = 4
    /\ last.ret = <<vec["a"].data_.buffer_, 1>>
    /\ Elems(heap, vec["a"]) = <<0, 1, 0, 1>>

\* C8: Erase at index i of an array of size s > 0 yields size s - 1, keeps
\* [0, i), moves each later element one slot left, leaves the capacity, and
\* returns the position of index i (end() when i was the last index).
C8_EraseRemovesAtIndex ==
    \A v \in Vecs : \A index \in 0..(vec[v].size_ - 1) :
        LET r == Erase(heap, vec[v], index, 0, DefaultVal)
        IN (vec[v].alive /\ AllLive(heap, vec[v]))
           => /\ r.ok
              /\ r.this.size_ = vec[v].size_ - 1
              /\ Elems(r.heap, r.this) = RemoveAt(Elems(heap, vec[v]), index)
              /\ r.this.data_ = vec[v].data_
              /\ r.ret = <<r.this.data_.buffer_, index>>
              /\ (index = vec[v].size_ - 1
                     => r.ret = <<r.this.data_.buffer_, r.this.size_>>)

C8_Witness ==
    /\ last.op = "Erase" /\ last.ok
    /\ vec["a"].size_ = 2 /\ last.ret = <<vec["a"].data_.buffer_, 0>>
    /\ Elems(heap, vec["a"]) = <<0, 1>>

\* C9: a block is owned by exactly one array at a time, an array never holds
\* a released block, and every block is released exactly once: no allocated
\* block is left without its owner.
C9_ExclusiveOwnership ==
    /\ \A v, w \in Vecs :
          (v # w /\ vec[v].data_.buffer_ # nullptr)
          => vec[v].data_.buffer_ # vec[w].data_.buffer_
    /\ \A v \in Vecs :
          vec[v].data_.buffer_ # nullptr
          => /\ vec[v].alive
             /\ Len(heap[vec[v].data_.buffer_]) = vec[v].data_.capacity_
             /\ vec[v].data_.capacity_ > 0
    /\ \A a \in Addrs :
          heap[a] # <<>> => \E v \in Vecs : vec[v].data_.buffer_ = a

C9_Witness ==
    /\ last.op = "MoveAssign"
    /\ vec["a"].data_.buffer_ # nullptr
    /\ vec["b"].alive /\ vec["b"].data_.buffer_ = nullptr
    /\ heap[vec["a"].data_.buffer_] # <<>>

\* C10: a successful append to an array with size == capacity == c yields
\* capacity max(1, 2c) and size c + 1, the prior elements unchanged and the
\* new value last; with size < capacity the capacity is unchanged.
C10_AppendGrowth ==
    \A v \in Vecs, x \in Vals :
        LET c == vec[v].data_.capacity_
            r == EmplaceBack(heap, vec[v], <<"val", x>>, 0, DefaultVal)
        IN (vec[v].alive /\ AllLive(heap, vec[v]) /\ r.ok)
           => /\ r.this.size_ = vec[v].size_ + 1
              /\ Elems(r.heap, r.this) = Append(Elems(heap, vec[v]), x)
              /\ r.this.data_.capacity_ =
                    IF ~Full(vec[v]) THEN c ELSE IF 2 * c > 1 THEN 2 * c ELSE 1

C10_Witness ==
    /\ last.op = "PushBack" /\ last.ok
    /\ vec["a"].size_ = 3 /\ vec["a"].data_.capacity_ = 4
    /\ Elems(heap, vec["a"]) = <<1, 0, 1>>

\* every outcome of every operation on the one array v, in the current state
Outcomes(v) ==
    VectorOutcomes(v) \cup DtorOutcomes(v) \cup PopBackOutcomes(v)
    \cup UNION {VectorNOutcomes(v, n) \cup ReserveOutcomes(v, n)
                   \cup ResizeOutcomes(v, n) : n \in 0..MaxReq}
    \cup UNION {PushBackOutcomes(v, arg) : arg \in Args}
    \cup UNION {EmplaceOutcomes(v, index, arg) : index \in Indexes, arg \in Args}
    \cup UNION {EraseOutcomes(v, index) : index \in Indexes}

\* C11: copy-constructing b from a yields b.Size() = a.Size(), b.Capacity() =
\* a.Size() and equal elements in a block of its own, and leaves a unchanged;
\* no operation on one array, with any outcome, changes the size, capacity
\* or elements of the other.
C11_CopyIsIndependent ==
    \A v, w \in Vecs :
        v # w
        => /\ \A r \in VectorCopyOutcomes(v, w) :
                 /\ Observed(r.heap, vec[w]) = Observed(heap, vec[w])
                 /\ (r.ok /\ AllLive(heap, vec[w]))
                    => /\ r.this.size_ = vec[w].size_
                       /\ r.this.data_.capacity_ = vec[w].size_
                       /\ Elems(r.heap, r.this) = Elems(heap, vec[w])
                       /\ (r.this.data_.buffer_ # nullptr
                             => r.this.data_.buffer_ # vec[w].data_.buffer_)
           /\ \A r \in Outcomes(v) :
                 Observed(r.heap, vec[w]) = Observed(heap, vec[w])

\* a copy of [0, 1] has been made from an array with spare capacity
C11_Witness ==
    /\ last.op = "VectorCopy" /\ last.ok
    /\ \E v, w \in Vecs :
          /\ vec[v].alive /\ vec[w].alive
          /\ vec[w].data_.capacity_ = 4 /\ vec[v].data_.capacity_ = 2
          /\ Elems(heap, vec[w]) = <<0, 1>> /\ Elems(heap, vec[v]) = <<0, 1>>

\* C12: move construction of b from a, and move assignment b = std::move(a)
\* with b distinct from a, give b the size, capacity, block and elements a
\* had (the slots of the block are not touched) and leave a with size 0 and
\* capacity 0; move-assigning an array to itself changes nothing.
C12_MoveTakesOver ==
    [][\A v, w \in Vecs :
          (DoVectorMove(v, w) \/ DoMoveAssign(v, w))
          => IF v = w THEN vec' = vec /\ heap' = heap
             ELSE /\ vec'[v].alive
                  /\ vec'[v].size_ = vec[w].size_
                  /\ vec'[v].data_ = vec[w].data_
                  /\ Elems(heap', vec'[v]) = Elems(heap, vec[w])
                  /\ (vec[w].data_.buffer_ # nullptr
                        => heap'[vec[w].data_.buffer_] = heap[vec[w].data_.buffer_])
                  /\ vec'[w] = [alive |-> TRUE, data_ |-> NullMemory, size_ |-> 0]
                  /\ last'.ok]_vars

\* an array of capacity 4 holding [1, 0] has been move-assigned from
C12_Witness ==
    /\ last.op = "MoveAssign" /\ last.ok
    /\ \E v, w \in Vecs :
          /\ vec[v].alive /\ vec[v].data_.capacity_ = 4
          /\ Elems(heap, vec[v]) = <<1, 0>>
          /\ vec[w] = [alive |-> TRUE, data_ |-> NullMemory, size_ |-> 0]

\* C13: Swap exchanges the size, capacity, block address and element sequence
\* of the two arrays, touches no slot and no block of the heap, and a second
\* Swap restores both arrays.
C13_SwapExchanges ==
    [][\A v, w \in Vecs :
          DoSwap(v, w)
          => /\ heap' = heap
             /\ vec'[v] = [vec[w] EXCEPT !.alive = TRUE]
             /\ vec'[w] = [vec[v] EXCEPT !.alive = TRUE]
             /\ Observed(heap', vec'[v]) = Observed(heap, vec[w])
             /\ Observed(heap', vec'[w]) = Observed(heap, vec[v])
             /\ last'.ok /\ ~last'.leak
             /\ LET back == Vector_Swap(vec'[v], vec'[w])
                IN back.this = vec[v] /\ back.other = vec[w]]_vars

\* [1] and [0, 1] have changed places
C13_Witness ==
    /\ last.op = "Swap" /\ last.ok
    /\ \E v, w \in Vecs :
          /\ vec[v].alive /\ vec[w].alive
          /\ vec[v].data_.capacity_ = 1 /\ Elems(heap, vec[v]) = <<1>>
          /\ vec[w].data_.capacity_ = 2 /\ Elems(heap, vec[w]) = <<0, 1>>

Min(x, y) == IF x < y THEN x ELSE y
Max(x, y) == IF x > y THEN x ELSE y

\* the array after: Vector v; PushBack 1, 2, 3; Insert 99 at index 1; Erase
\* index 0; then Resize(5) (the first result) and Resize(2) (the second)
ResizeScenario ==
    LET h0 == [a \in Addrs |-> <<>>]
        v0 == [Unconstructed EXCEPT !.alive = TRUE]
        r1 == EmplaceBack(h0, v0, <<"val", 1>>, 0, DefaultVal)
        r2 == EmplaceBack(r1.heap, r1.this, <<"val", 2>>, 0, DefaultVal)
        r3 == EmplaceBack(r2.heap, r2.this, <<"val", 3>>, 0, DefaultVal)
        r4 == Emplace(r3.heap, r3.this, 1, <<"val", 99>>, 0, DefaultVal)
        r5 == Erase(r4.heap, r4.this, 0, 0, DefaultVal)
        r6 == Resize(r5.heap, r5.this, 5, 0, DefaultVal)
        r7 == Resize(r6.heap, r6.this, 2, 0, DefaultVal)
    IN <<Observed(r6.heap, r6.this), Observed(r7.heap, r7.this)>>

\* C14: a successful Resize(n) of an array of size s and capacity c yields
\* size n, elements [0, min(s, n)) unchanged, elements [s, n) default-valued
\* and capacity max(c, n); and the example sequence, run on a new array of
\* each element type, gives [99, 2, 3, 0, 0] after Resize(5) and [99, 2] after
\* Resize(2).
C14_ResizeResult ==
    /\ \A v \in Vecs, n \in Indexes :
          LET s == vec[v].size_
              r == Resize(heap, vec[v], n, 0, DefaultVal)
          IN (vec[v].alive /\ AllLive(heap, vec[v]))
             => /\ r.ok
                /\ r.this.size_ = n
                /\ r.this.data_.capacity_ = Max(vec[v].data_.capacity_, n)
                /\ SubSeq(Elems(r.heap, r.this), 1, Min(s, n))
                      = SubSeq(Elems(heap, vec[v]), 1, Min(s, n))
                /\ \A i \in (s + 1)..n : Elems(r.heap, r.this)[i] = DefaultVal
    /\ last.op = "none"
       => ResizeScenario = <<[size |-> 5, capacity |-> 5, elems |-> <<99, 2, 3, 0, 0>>],
                             [size |-> 2, capacity |-> 5, elems |-> <<99, 2>>]>>

\* Resize(2) has grown [1] into [1, 0] in a block of 2
C14_Witness ==
    /\ last.op = "Resize" /\ last.ok
    /\ vec["a"].size_ = 2 /\ vec["a"].data_.capacity_ = 2
    /\ Elems(heap, vec["a"]) = <<1, 0>>
    /\ T = MoveOnlyT

\* C15: Vector(n) yields size = capacity = n with n default-valued elements
\* (no block when n = 0); when operator new or the construction of an element
\* throws, no array exists, no constructed element is left alive and the heap
\* is as before the call.
C15_SizedConstruction ==
    \A n \in Indexes : \A f \in (0 - 1)..n :
        LET r == Vector_n(heap, n, f)
        IN IF f = 0
           THEN /\ r.ok /\ r.this.alive
                /\ r.this.size_ = n /\ r.this.data_.capacity_ = n
                /\ Elems(r.heap, r.this) = [i \in 1..n |-> DefaultVal]
                /\ (n = 0 => r.this.data_.buffer_ = nullptr /\ r.heap = heap)
                /\ (n > 0 => heap[r.this.data_.buffer_] = <<>>)
                /\ \A a \in Addrs \ {r.this.data_.buffer_} : r.heap[a] = heap[a]
           ELSE (n > 0)
                => /\ ~r.ok /\ ~r.leak
                   /\ r.this = Unconstructed
                   /\ r.heap = heap

\* Vector(2) has built [0, 0] in a block of 2
C15_Witness ==
    /\ last.op = "VectorN" /\ last.ok
    /\ vec["a"].alive /\ vec["a"].size_ = 2 /\ vec["a"].data_.capacity_ = 2
    /\ Elems(heap, vec["a"]) = <<DefaultVal, DefaultVal>>

\* C16: over the operations of one array (append, insert, PopBack, Erase,
\* Reserve, Resize, with any outcome) the capacity never decreases; PopBack
\* takes one off the size, leaves the block and its capacity, and changes
\* only the slot of the last element, which holds no object afterwards.
C16_CapacityNeverDecreases ==
    [][\A v \in Vecs :
          /\ (vec[v].alive /\ vec'[v].alive)
             => vec'[v].data_.capacity_ >= vec[v].data_.capacity_
          /\ DoPopBack(v)
             => LET buf == vec[v].data_.buffer_
                    s == vec[v].size_
                IN /\ last'.ok
                   /\ vec'[v].size_ = s - 1
                   /\ vec'[v].data_ = vec[v].data_
                   /\ Get(heap', buf, s - 1) = Raw
                   /\ \A i \in 0..(vec[v].data_.capacity_ - 1) :
                         i # s - 1 => Get(heap', buf, i) = Get(heap, buf, i)]_vars

\* PopBack has left [1, 0] in a block of 4
C16_Witness ==
    /\ last.op = "PopBack" /\ last.ok
    /\ vec["a"].size_ = 2 /\ vec["a"].data_.capacity_ = 4
    /\ Elems(heap, vec["a"]) = <<1, 0>>
    /\ Get(heap, vec["a"].data_.buffer_, 2) = Raw

\* C17: a reallocating append or insert that fails releases the new block
\* only after every element constructed in it, the new element included, has
\* been destroyed: the failed call releases no block holding a live element.
C17_FailedGrowthLeaksNothing ==
    (last.op \in {"PushBack", "Emplace"} /\ ~last.ok) => ~last.leak

\* what Reserve(n) does when n <= Capacity() and when it succeeds: no change,
\* or capacity exactly n with size and elements unchanged, the old block
\* released and no other block touched
ReserveDone(v, n, r) ==
    LET old == vec[v].data_.buffer_
    IN IF n <= vec[v].data_.capacity_
       THEN r.ok /\ r.heap = heap /\ r.this = vec[v]
       ELSE /\ r.this.data_.capacity_ = n
            /\ r.this.size_ = vec[v].size_
            /\ Elems(r.heap, r.this) = Elems(heap, vec[v])
            /\ r.this.data_.buffer_ \notin {nullptr, old}
            /\ Len(r.heap[r.this.data_.buffer_]) = n
            /\ (old # nullptr => r.heap[old] = <<>>)

\* a failed Reserve(n): the array holds its block, size and capacity, and the
\* new block is released
ReserveFailed(v, r) ==
    /\ r.this = vec[v]
    /\ \A a \in Addrs \ {vec[v].data_.buffer_} : r.heap[a] = heap[a]

\* C18: Reserve(n) with n <= Capacity() changes nothing; with n > Capacity()
\* it yields capacity exactly n, size and elements unchanged, the old block
\* released; when the allocation or the transfer fails, size, capacity and
\* elements are as before the call and the new block is released.
C18_ReserveAllOrNothing ==
    \A v \in Vecs, n \in Indexes : \A r \in ReserveOutcomes(v, n) :
        AllLive(heap, vec[v])
        => IF r.ok THEN ReserveDone(v, n, r)
           ELSE /\ ReserveFailed(v, r)
                /\ Elems(r.heap, r.this) = Elems(heap, vec[v])

\* C18 amended: as C18, but a failed transfer leaves the elements as before
\* only when SafeMove copies (the type is copy-constructible); for a
\* move-only type with a throwing move constructor the elements moved before
\* the throw are left moved-from, every element still alive.
C18_ReserveAmended ==
    \A v \in Vecs, n \in Indexes : \A r \in ReserveOutcomes(v, n) :
        AllLive(heap, vec[v])
        => IF r.ok THEN ReserveDone(v, n, r)
           ELSE /\ ReserveFailed(v, r)
                /\ AllLive(r.heap, r.this)
                /\ \A i \in 1..vec[v].size_ :
                      \/ Elems(r.heap, r.this)[i] = Elems(heap, vec[v])[i]
                      \/ ~T.copyable /\ Elems(r.heap, r.this)[i] = MovedFrom

\* Reserve(2) has moved [1] into a block of 2
C18_Witness ==
    /\ last.op = "Reserve" /\ last.ok
    /\ vec["a"].size_ = 1 /\ vec["a"].data_.capacity_ = 2
    /\ Elems(heap, vec["a"]) = <<1>>
    /\ T = CopiedT

\* C19: after a successful copy assignment a = b, a has b's size and
\* elements, b is unchanged, a's capacity is its previous capacity when
\* b.Size() <= a.Capacity() and exactly b.Size() otherwise, no element of a
\* beyond b's size stays alive and none is released undestroyed; a = a
\* changes nothing.
C19_CopyAssignResult ==
    \A v, w \in Vecs : \A r \in CopyAssignOutcomes(v, w) :
        (r.ok /\ SlotsMatchSize(heap, vec[v]) /\ SlotsMatchSize(heap, vec[w]))
        => IF v = w THEN r.heap = heap /\ r.this = vec[v]
           ELSE /\ r.this.size_ = vec[w].size_
                /\ Elems(r.heap, r.this) = Elems(heap, vec[w])
                /\ Observed(r.heap, vec[w]) = Observed(heap, vec[w])
                /\ IF vec[w].size_ <= vec[v].data_.capacity_
                   THEN r.this.data_ = vec[v].data_
                   ELSE r.this.data_.capacity_ = vec[w].size_
                /\ SlotsMatchSize(r.heap, r.this)
                /\ ~r.leak
                /\ \A a \in Addrs \ {vec[v].data_.buffer_, r.this.data_.buffer_} :
                      r.heap[a] = heap[a]

\* [1, 0] in a block of 2 has been assigned the one-element array [1]
C19_Witness ==
    /\ last.op = "CopyAssign" /\ last.ok
    /\ \E v, w \in Vecs :
          /\ vec[v].alive /\ vec[w].alive
          /\ vec[v].data_.capacity_ = 2 /\ Elems(heap, vec[v]) = <<1>>
          /\ vec[w].data_.capacity_ = 1 /\ Elems(heap, vec[w]) = <<1>>
          /\ SlotsMatchSize(heap, vec[v])

\* C20: PushBack(v[j]) and Insert(pos, v[j]), with the argument a reference
\* to an element of the array itself, insert the value v[j] had before the
\* call, on every path: append with and without reallocation, insert with
\* reallocation, insert with in-place shift.
C20_AliasedArgument ==
    \A v \in Vecs : \A j \in 0..(vec[v].size_ - 1) :
        LET old == Elems(heap, vec[v])
            pb == EmplaceBack(heap, vec[v], <<"ref", j>>, 0, DefaultVal)
        IN (vec[v].alive /\ T.copyable /\ AllLive(heap, vec[v]))
           => /\ pb.ok /\ Elems(pb.heap, pb.this) = Append(old, old[j + 1])
              /\ \A index \in 0..vec[v].size_ :
                    LET r == Emplace(heap, vec[v], index, <<"ref", j>>, 0, DefaultVal)
                    IN /\ r.ok
                       /\ Elems(r.heap, r.this) = InsertAt(old, index, old[j + 1])
                       /\ r.ret = <<r.this.data_.buffer_, index>>

\* Insert(begin() + 1, v[j]) has shifted in place and left [0, 1, 1, 0] in a
\* block of 4
C20_Witness ==
    /\ last.op = "InsertRef" /\ last.ok
    /\ vec["a"].size_ = 4 /\ vec["a"].data_.capacity_ = 4
    /\ last.ret = <<vec["a"].data_.buffer_, 1>>
    /\ Elems(heap, vec["a"]) = <<0, 1, 1, 0>>

====
